---- MODULE Spec2Model ----
(***************************************************************************)
(* Wall-mounted trapezoid box visualizer: TrapezoidBox (box-geometry.js),  *)
(* UnfoldController (animation controller) and the event handlers of      *)
(* app.js, as a state machine.                                             *)
(*                                                                         *)
(* Units.  Lengths are kept in quarter centimetres (every coordinate the   *)
(* code computes from integer dimensions is a multiple of 1/4).  Progress  *)
(* is kept in percent (the slider value; the code divides it by 100).      *)
(* The eased progress is kept in millionths (Scale), which is exact for a  *)
(* percent input, and angles in units of 45/Scale degrees, so that         *)
(* (PI/2) * x is 2 * x and (PI/4) * x is x for x in millionths.           *)
(***************************************************************************)
EXTENDS Integers, Sequences, FiniteSets, TLC

VARIABLES
    started,      \* init() of app.js has run
    dims,         \* box.tw, box.bw, box.h, box.d, box.fw
    panels,       \* box.panels: key -> mesh (identity, parent, position, rotation, scale)
    group,        \* box.group.children, as <<key, mesh identity>>
    builds,       \* number of createGeometry runs so far (the identity of the meshes it makes)
    restPose,     \* unfoldController.restPose: key -> saved position, rotation, scale
    progress,     \* unfoldController.progress, in percent
    sliders,      \* the DOM values of the five dimension sliders and the unfold slider
    statusShown,  \* << >> or <<p>>: the argument of the last updateStatusText call
    specShown,    \* << >> or <<r>>: what the last updateSpecifications run computed
    lastOp,       \* the operation that made the last step
    lastParams,   \* the params object of the last updateDimensions call
    threw         \* "none", or the error that ended the last operation

vars == <<started, dims, panels, group, builds, restPose, progress, sliders,
          statusShown, specShown, lastOp, lastParams, threw>>

-----------------------------------------------------------------------------
(* Bounds of the model *)

\* createGeometry runs explored (mesh identities are build numbers)
MaxBuilds == 3

\* the unfold slider is sampled at NumStops + 1 evenly spread values of 0..100
NumStops == 4

-----------------------------------------------------------------------------
(* Arithmetic helpers *)

Abs(x) == IF x < 0 THEN -x ELSE x

RECURSIVE Gcd(_, _)
Gcd(a, b) == IF b = 0 THEN Abs(a) ELSE Gcd(b, a % Abs(b))

\* The direction of an integer vector: the vector divided by the gcd of its
\* components.  Two vectors normalise to the same unit vector exactly when
\* their directions are equal.
Direction(v) ==
    LET g == Gcd(Gcd(v[1], v[2]), v[3])
    IN  IF g = 0 THEN v ELSE <<v[1] \div g, v[2] \div g, v[3] \div g>>

Scale == 100 * 100 * 100

\* (Math.PI / 2) * x, for x in millionths
HalfPi(x) == 2 * x

\* (Math.PI / 4) * x, for x in millionths
QuarterPi(x) == x

\* An angle: u units plus s times the slant angle atan2(slant[1], slant[2])
Ang(u) == [u |-> u, s |-> 0, slant |-> <<0, 0>>]

Zero3 == <<0, 0, 0>>
One3 == <<1, 1, 1>>

-----------------------------------------------------------------------------
(* utils.js *)

\* Faulty variant of easeInOutCubic: the second branch without its / 2
easeInOutCubicNoHalf(k) ==
    IF 2 * k < 100
    THEN 4 * k * k * k
    ELSE Scale - (200 - 2 * k) * (200 - 2 * k) * (200 - 2 * k)

\* Easing.easeInOutCubic(t) for t = k/100, in millionths:
\* t < 0.5 ? 4 t^3 : 1 - (-2 t + 2)^3 / 2
easeInOutCubic(k) ==
    IF 2 * k < 100
    THEN 4 * k * k * k
    ELSE Scale - ((200 - 2 * k) * (200 - 2 * k) * (200 - 2 * k)) \div 2

\* clamp(val, min, max) == Math.min(Math.max(val, min), max)
clamp(val, min, max) ==
    LET lo == IF val > min THEN val ELSE min
    IN  IF lo < max THEN lo ELSE max

-----------------------------------------------------------------------------
(* Vectors, in quarter centimetres *)

Add3(a, b) == <<a[1] + b[1], a[2] + b[2], a[3] + b[3]>>

Sub3(a, b) == <<a[1] - b[1], a[2] - b[2], a[3] - b[3]>>

\* new THREE.Vector3(x/2, y/2, z/2) for integer x, y, z
HalfVec(x, y, z) == <<2 * x, 2 * y, 2 * z>>

Neg(a) == [a EXCEPT !.u = -a.u, !.s = -a.s]

-----------------------------------------------------------------------------
(* box-geometry.js: TrapezoidBox *)

\* constructor: default dimensions
DefaultDims == [tw |-> 30, bw |-> 20, h |-> 25, d |-> 15, fw |-> 2]

\* createGeometry: slantAngle = Math.atan2(dx, dy), dx = (tw - bw) / 2, dy = h.
\* The angle is kept by the direction of (dx, dy); atan2(0, dy) is 0 for
\* dy > 0 and PI for dy < 0.
slantAngle(d) ==
    LET dx2 == d.tw - d.bw
        dy2 == 2 * d.h
        g   == Gcd(dx2, dy2)
    IN  IF dx2 = 0
        THEN (IF dy2 < 0 THEN Ang(HalfPi(2 * Scale)) ELSE Ang(0))
        ELSE [u |-> 0, s |-> 1, slant |-> <<dx2 \div g, dy2 \div g>>]

\* createGeometry: slantHeight = Math.sqrt(dx * dx + dy * dy), kept as the
\* square of twice the length (an integer)
slantHeightSq4(d) == (d.tw - d.bw) * (d.tw - d.bw) + 4 * d.h * d.h

\* A freshly made THREE.Mesh: rotation (0, 0, 0) order XYZ, scale (1, 1, 1),
\* no rotation about a pivot applied to its position or its orientation.
Euler(order, x, y, z) == [order |-> order, x |-> x, y |-> y, z |-> z, turns |-> << >>]

\* A coordinate of a vertex: q quarter centimetres plus sl times half the
\* slant height, whose square times 4 is r (r = 0 when sl = 0)
Co(q) == [q |-> q, sl |-> 0, r |-> 0]

\* sl times slantHeight / 2
SlantCo(sl, d) == [q |-> 0, sl |-> sl, r |-> IF sl = 0 THEN 0 ELSE slantHeightSq4(d)]

CoNeg(a) == [a EXCEPT !.q = -a.q, !.sl = -a.sl]

CoAdd(a, b) ==
    [q |-> a.q + b.q, sl |-> a.sl + b.sl,
     r |-> IF a.sl + b.sl = 0 THEN 0 ELSE IF a.r # 0 THEN a.r ELSE b.r]

\* new THREE.PlaneGeometry(w, h), given w / 2 and h / 2: the corners
\* bottom-left, bottom-right, top-right, top-left of a rectangle centred at
\* the local origin
PlaneGeometry(halfW, halfH) ==
    << <<CoNeg(halfW), CoNeg(halfH)>>, <<halfW, CoNeg(halfH)>>,
       <<halfW, halfH>>, <<CoNeg(halfW), halfH>> >>

\* The trapezoid of backShape / frontShape: moveTo(-halfBw, -halfH),
\* lineTo(halfBw, -halfH), lineTo(halfTw, halfH), lineTo(-halfTw, halfH)
TrapezoidShape(d) ==
    << <<Co(-2 * d.bw), Co(-2 * d.h)>>, <<Co(2 * d.bw), Co(-2 * d.h)>>,
       <<Co(2 * d.tw), Co(2 * d.h)>>, <<Co(-2 * d.tw), Co(2 * d.h)>> >>

\* geometry.translate(x, y, 0)
translate(verts, x, y) ==
    [i \in DOMAIN verts |-> <<CoAdd(verts[i][1], x), CoAdd(verts[i][2], y)>>]

\* Faulty variant of lidGeom: the lid as wide as the bottom
lidGeomBottomWidth(d) == PlaneGeometry(Co(2 * d.bw), Co(2 * d.d))

\* createGeometry: lidGeom = new THREE.PlaneGeometry(this.tw, this.d)
lidGeom(d) == PlaneGeometry(Co(2 * d.tw), Co(2 * d.d))

\* The geometry createGeometry gives each mesh
newGeometry(key, d) ==
    CASE key = "back"   -> TrapezoidShape(d)
      [] key = "bottom" -> PlaneGeometry(Co(2 * d.bw), Co(2 * d.d))
      [] key = "lid"    -> lidGeom(d)
      [] key = "left"   -> PlaneGeometry(Co(2 * d.d), SlantCo(1, d))
      [] key = "right"  -> PlaneGeometry(Co(2 * d.d), SlantCo(1, d))
      [] key = "lidFlap"   ->
            translate(PlaneGeometry(Co(2 * d.tw), Co(2 * d.fw)), Co(0), Co(2 * d.fw))
      [] key = "leftFlap"  ->
            translate(PlaneGeometry(Co(2 * d.fw), SlantCo(1, d)), Co(2 * d.fw), Co(0))
      [] key = "rightFlap" ->
            translate(PlaneGeometry(Co(2 * d.fw), SlantCo(1, d)), Co(2 * d.fw), Co(0))
      [] key = "front"     -> translate(TrapezoidShape(d), Co(0), Co(2 * d.h))

Mesh(n, parent, geometry, at, rot) ==
    [mesh |-> n, parent |-> parent, geometry |-> geometry,
     position |-> [at |-> at, turns |-> << >>],
     rotation |-> rot,
     scale |-> One3]

\* Faulty variant of hingeCorner: the top width in place of the bottom width
hingeCornerTop(d, side) == HalfVec(side * d.tw, -d.h, -d.d)

\* hingeCorner / rightHingeCorner (side = -1 left, +1 right)
hingeCorner(d, side) == HalfVec(side * d.bw, -d.h, -d.d)

\* Faulty variant of rotatedLocalCorner: the local x axis taken to map to
\* world +z, as the comments of createGeometry have it
rotatedLocalCornerForward(d, side) == <<-side * (d.tw - d.bw), -2 * d.h, -2 * d.d>>

\* localCorner.applyEuler(rotation) for localCorner = (-d/2, -slantHeight/2, 0)
\* and rotation order YXZ, y = PI/2, x = side * slantAngle.  Ry(PI/2) Rx(x)
\* maps the local x axis to (0, 0, -1) and the local y axis to
\* (sin x, cos x, 0); slantHeight * sin(slantAngle) = dx and
\* slantHeight * cos(slantAngle) = dy, so the rotated corner is
\* (-side * dx / 2, -h / 2, d / 2).
rotatedLocalCorner(d, side) == <<-side * (d.tw - d.bw), -2 * d.h, 2 * d.d>>

\* The rotation of a side panel: order 'YXZ', y = PI/2, x = side * slantAngle
sideRotation(d, side) ==
    Euler("YXZ",
          IF side < 0 THEN Neg(slantAngle(d)) ELSE slantAngle(d),
          Ang(HalfPi(Scale)), Ang(0))

\* The meshes createGeometry makes, in the order it makes them
BuiltKeys ==
    {"back", "bottom", "lid", "left", "right", "lidFlap", "leftFlap", "rightFlap", "front"}

\* The meshes createGeometry adds to this.group
GroupKeys == {"back", "bottom", "lid", "left", "right"}

NoRotation == Euler("XYZ", Ang(0), Ang(0), Ang(0))

newMesh(key, d, n) ==
    CASE key = "back"   -> Mesh(n, "group", newGeometry(key, d), HalfVec(0, 0, -d.d), NoRotation)
      [] key = "bottom" -> Mesh(n, "group", newGeometry(key, d), HalfVec(0, -d.h, 0),
                                Euler("XYZ", Ang(HalfPi(Scale)), Ang(0), Ang(0)))
      [] key = "lid"    -> Mesh(n, "group", newGeometry(key, d), HalfVec(0, d.h, 0),
                                Euler("XYZ", Ang(HalfPi(Scale)), Ang(0), Ang(0)))
      [] key = "left"   -> Mesh(n, "group", newGeometry(key, d),
                                Sub3(hingeCorner(d, -1), rotatedLocalCorner(d, -1)),
                                sideRotation(d, -1))
      [] key = "right"  -> Mesh(n, "group", newGeometry(key, d),
                                Sub3(hingeCorner(d, 1), rotatedLocalCorner(d, 1)),
                                sideRotation(d, 1))
      [] key = "lidFlap"   -> Mesh(n, "lid", newGeometry(key, d), HalfVec(0, d.d, 0), NoRotation)
      [] key = "leftFlap"  -> Mesh(n, "left", newGeometry(key, d), HalfVec(d.d, 0, 0), NoRotation)
      [] key = "rightFlap" -> Mesh(n, "right", newGeometry(key, d), HalfVec(d.d, 0, 0), NoRotation)
      [] key = "front"     -> Mesh(n, "bottom", newGeometry(key, d), HalfVec(0, d.d, 0), NoRotation)

\* createGeometry: every this.panels.<key> = new THREE.Mesh(...) and
\* this.group.add(...) of the method
createGeometry(o) ==
    LET n == o.builds + 1
    IN  [o EXCEPT
            !.builds = n,
            !.panels = [k \in (DOMAIN o.panels) \cup BuiltKeys |->
                            IF k \in BuiltKeys THEN newMesh(k, o.dims, n)
                            ELSE o.panels[k]],
            !.group = o.group \cup {<<k, n>> : k \in GroupKeys}]

\* Faulty variant of rebuild: the old meshes stay in the group
rebuildKeepChildren(o) == createGeometry([o EXCEPT !.panels = << >>])

\* rebuild: remove every child of the group, empty the panel table, create anew
rebuild(o) == createGeometry([o EXCEPT !.group = {}, !.panels = << >>])

\* params.x || this.x
OrElse(v, old) == IF v # 0 THEN v ELSE old

\* Faulty variant of updateDimensions: the dimensions are stored and the
\* hierarchy is not rebuilt
updateDimensionsNoRebuild(o, params) ==
    [o EXCEPT !.dims = [tw |-> OrElse(params.topWidth, o.dims.tw),
                        bw |-> OrElse(params.bottomWidth, o.dims.bw),
                        h  |-> OrElse(params.height, o.dims.h),
                        d  |-> OrElse(params.depth, o.dims.d),
                        fw |-> OrElse(params.flapWidth, o.dims.fw)]]

\* updateDimensions(params)
updateDimensions(o, params) ==
    rebuild([o EXCEPT !.dims = [tw |-> OrElse(params.topWidth, o.dims.tw),
                                bw |-> OrElse(params.bottomWidth, o.dims.bw),
                                h  |-> OrElse(params.height, o.dims.h),
                                d  |-> OrElse(params.depth, o.dims.d),
                                fw |-> OrElse(params.flapWidth, o.dims.fw)]])

-----------------------------------------------------------------------------
(* UnfoldController *)

\* Faulty variant of saveRestPose: nothing is saved
saveRestPoseNothing(o) == o

\* saveRestPose: restPose[key] = clones of position, rotation, scale, for
\* every key of box.panels
saveRestPose(o) ==
    [o EXCEPT !.restPose =
        [k \in DOMAIN o.panels |->
            [pos   |-> o.panels[k].position,
             rot   |-> o.panels[k].rotation,
             scale |-> o.panels[k].scale]]]

\* Faulty variant of resetToRest: update without its reset loop
resetNothing(o) == o.panels

\* The reset loop of update: every panel that has a rest entry gets its
\* position, rotation and scale copied from it
resetToRest(o) ==
    [k \in DOMAIN o.panels |->
        IF k \in DOMAIN o.restPose
        THEN [o.panels[k] EXCEPT !.position = o.restPose[k].pos,
                                 !.rotation = o.restPose[k].rot,
                                 !.scale    = o.restPose[k].scale]
        ELSE o.panels[k]]

\* One more rotation by angle about (pivot, axis) after the rotations of
\* turns.  Rotations about the same pivot and axis add their angles; a
\* rotation by 0 is the identity.
addTurn(turns, turn) ==
    IF turn.angle = 0 THEN turns
    ELSE IF turns # << >>
            /\ turns[Len(turns)].pivot = turn.pivot
            /\ turns[Len(turns)].axis = turn.axis
         THEN LET sum == turns[Len(turns)].angle + turn.angle
                  init == SubSeq(turns, 1, Len(turns) - 1)
              IN  IF sum = 0 THEN init
                  ELSE Append(init, [turn EXCEPT !.angle = sum])
         ELSE Append(turns, turn)

\* rotateAroundPivot(mesh, pivot, axis, angle): position.sub(pivot),
\* position.applyAxisAngle(axis, angle), position.add(pivot) turn the
\* position about the pivot; rotateOnWorldAxis(axis, angle) turns the
\* orientation about the axis.
rotateAroundPivot(mesh, pivot, axis, angle) ==
    [mesh EXCEPT
        !.position.turns = addTurn(@, [pivot |-> pivot, axis |-> axis, angle |-> angle]),
        !.rotation.turns = addTurn(@, [pivot |-> Zero3, axis |-> axis, angle |-> angle])]

closeProgress(k) == easeInOutCubic(k)

openAmount(k) == Scale - closeProgress(k)

lidPivot(d) == HalfVec(0, d.h, -d.d)

\* Faulty variant of lidAngle: driven by closeProgress instead of openAmount
lidAngleClosing(k) == HalfPi(closeProgress(k))

lidAngle(k) == HalfPi(openAmount(k))

bottomPivot(d) == HalfVec(0, -d.h, -d.d)

bottomAngle(k) == HalfPi(openAmount(k))

leftP1(d) == HalfVec(-d.bw, -d.h, -d.d)

leftP2(d) == HalfVec(-d.tw, d.h, -d.d)

\* new THREE.Vector3().subVectors(leftP2, leftP1).normalize()
leftAxis(d) == Direction(Sub3(leftP2(d), leftP1(d)))

leftAngle(k) == HalfPi(Scale) + HalfPi(closeProgress(k))

rightP1(d) == HalfVec(d.bw, -d.h, -d.d)

rightP2(d) == HalfVec(d.tw, d.h, -d.d)

rightAxis(d) == Direction(Sub3(rightP2(d), rightP1(d)))

rightAngle(k) == HalfPi(Scale) + HalfPi(closeProgress(k))

XAxis == <<1, 0, 0>>

\* Faulty variant of setFlapAngle: the flap is also swung about a pivot
\* that is not its own origin
setFlapAngleMoving(mesh, c, a) ==
    [mesh EXCEPT
        !.rotation[c] = Ang(a),
        !.position.turns = addTurn(@, [pivot |-> Zero3, axis |-> XAxis, angle |-> a])]

\* panel.rotation.<c> = a: one component of the Euler rotation is assigned
setFlapAngle(mesh, c, a) == [mesh EXCEPT !.rotation[c] = Ang(a)]

\* The statements of update after the reset loop, in the order of the code:
\* each dereferences this.box.panels.<key>
FoldRows ==
    <<"lid", "bottom", "left", "right", "lidFlap", "lidLeftFlap", "lidRightFlap",
      "front", "leftFlap", "rightFlap", "leftBottomFlap", "rightBottomFlap">>

\* One statement of update applied to its mesh
foldRow(key, mesh, d, k) ==
    CASE key = "lid"    -> rotateAroundPivot(mesh, lidPivot(d), XAxis, -lidAngle(k))
      [] key = "bottom" -> rotateAroundPivot(mesh, bottomPivot(d), XAxis, bottomAngle(k))
      [] key = "left"   -> rotateAroundPivot(mesh, leftP1(d), leftAxis(d), leftAngle(k))
      [] key = "right"  -> rotateAroundPivot(mesh, rightP1(d), rightAxis(d), -rightAngle(k))
      [] key = "lidFlap"         -> setFlapAngle(mesh, "x", HalfPi(closeProgress(k)))
      [] key = "lidLeftFlap"     -> setFlapAngle(mesh, "y", HalfPi(closeProgress(k)))
      [] key = "lidRightFlap"    -> setFlapAngle(mesh, "y", -HalfPi(closeProgress(k)))
      [] key = "front"           -> setFlapAngle(mesh, "x", -HalfPi(closeProgress(k)))
      [] key = "leftFlap"        ->
            setFlapAngle(mesh, "y", QuarterPi(Scale) + QuarterPi(closeProgress(k)))
      [] key = "rightFlap"       ->
            setFlapAngle(mesh, "y", -QuarterPi(Scale) - QuarterPi(closeProgress(k)))
      [] key = "leftBottomFlap"  -> setFlapAngle(mesh, "x", HalfPi(closeProgress(k)))
      [] key = "rightBottomFlap" -> setFlapAngle(mesh, "x", HalfPi(closeProgress(k)))

\* The statements i.. of update, run in order on the panel table ps.  A
\* statement whose panel is not in the table reads a property of undefined:
\* a TypeError ends update there, with the earlier statements' effects kept.
RECURSIVE foldFrom(_, _, _, _)
foldFrom(i, ps, d, k) ==
    IF i > Len(FoldRows) THEN [panels |-> ps, threw |-> "none"]
    ELSE IF FoldRows[i] \notin DOMAIN ps THEN [panels |-> ps, threw |-> "TypeError"]
    ELSE foldFrom(i + 1,
                  [ps EXCEPT ![FoldRows[i]] = foldRow(FoldRows[i], ps[FoldRows[i]], d, k)],
                  d, k)

\* Faulty variant of update: the folded poses are saved as the rest pose
updateSavingRest(o, k) ==
    LET r == foldFrom(1, resetToRest(o), o.dims, k)
    IN  [o EXCEPT !.progress = k, !.panels = r.panels, !.threw = r.threw,
                  !.restPose = [x \in DOMAIN r.panels |->
                                   [pos |-> r.panels[x].position,
                                    rot |-> r.panels[x].rotation,
                                    scale |-> r.panels[x].scale]]]

\* update(progress), progress = k / 100
update(o, k) ==
    LET r == foldFrom(1, resetToRest(o), o.dims, k)
    IN  [o EXCEPT !.progress = k, !.panels = r.panels, !.threw = r.threw]

-----------------------------------------------------------------------------
(* app.js *)

\* The box and its controller, as one value the methods above transform
Obj ==
    [dims |-> dims, panels |-> panels, group |-> group, builds |-> builds,
     restPose |-> restPose, progress |-> progress, threw |-> "none"]

Install(o) ==
    /\ dims' = o.dims
    /\ panels' = o.panels
    /\ group' = o.group
    /\ builds' = o.builds
    /\ restPose' = o.restPose
    /\ progress' = o.progress

\* new TrapezoidBox(scene): default dimensions, empty group and panel table,
\* createGeometry; new UnfoldController(box, camera): progress 0, saveRestPose
Constructed ==
    saveRestPose(createGeometry(
        [dims |-> DefaultDims, panels |-> << >>, group |-> {}, builds |-> 0,
         restPose |-> << >>, progress |-> 0, threw |-> "none"]))

\* The params object updateSpecifications builds from the box when given none
BoxParams(d) ==
    [topWidth |-> d.tw, bottomWidth |-> d.bw, height |-> d.h, depth |-> d.d,
     flapWidth |-> d.fw]

\* Faulty variant of updateSpecifications: totalH counts one flap only
updateSpecificationsOneFlap(params) ==
    [params    |-> params,
     dx2       |-> params.topWidth - params.bottomWidth,
     slantSq4  |-> (params.topWidth - params.bottomWidth)
                       * (params.topWidth - params.bottomWidth)
                   + 4 * params.height * params.height,
     totalH    |-> params.flapWidth + params.depth + params.height + params.depth,
     areaBack2 |-> params.height * (params.topWidth + params.bottomWidth),
     areaBottom |-> params.bottomWidth * params.depth,
     areaLid   |-> params.topWidth * params.depth]

\* updateSpecifications(params): the quantities it computes that are
\* rational in the parameters.  dx2 is 2 * dx, slantSq4 is 4 * slantH^2,
\* areaBack2 is 2 * areaBack; totalW and totalArea, which add multiples of
\* slantH, are left out.
updateSpecifications(params) ==
    [params    |-> params,
     dx2       |-> params.topWidth - params.bottomWidth,
     slantSq4  |-> (params.topWidth - params.bottomWidth)
                       * (params.topWidth - params.bottomWidth)
                   + 4 * params.height * params.height,
     totalH    |-> params.flapWidth + params.depth + params.height + params.depth
                   + params.flapWidth,
     areaBack2 |-> params.height * (params.topWidth + params.bottomWidth),
     areaBottom |-> params.bottomWidth * params.depth,
     areaLid   |-> params.topWidth * params.depth]

\* The values the sliders of index.html start with: the default parameters
\* and progress 0
InitialSliders ==
    [topWidth |-> 30, bottomWidth |-> 20, height |-> 25, depth |-> 15,
     flapWidth |-> 2, unfold |-> 0]

DimInputs == {"topWidth", "bottomWidth", "height", "depth", "flapWidth"}

\* The values a dimension slider delivers
SliderValues(id) ==
    CASE id = "topWidth"    -> {0, 30, 40}
      [] id = "bottomWidth" -> {20, 40}
      [] id = "height"      -> {0, 25}
      [] id = "depth"       -> {10, 15}
      [] id = "flapWidth"   -> {0, 2}

\* The values the unfold slider delivers (0 .. 100, sampled)
UnfoldValues == {(100 * i) \div NumStops : i \in 0 .. NumStops}

\* updateBoxGeometry: the params object read from the five sliders
sliderParams(sl) ==
    [topWidth |-> sl.topWidth, bottomWidth |-> sl.bottomWidth, height |-> sl.height,
     depth |-> sl.depth, flapWidth |-> sl.flapWidth]

\* Faulty variant of appliedProgress: progress 0 is re-applied
appliedProgressZero(o, sl) == 0

\* updateBoxGeometry: progress = parseFloat(unfold.value) / 100, in percent
appliedProgress(o, sl) == sl.unfold

\* updateBoxGeometry(rebuild = true), up to the first exception:
\* updateDimensions, saveRestPose, update(progress), flatPattern.draw() when
\* progress > 0.95 (flatPattern is the dummy of init, which has no draw:
\* a TypeError), updateSpecifications(params)
updateBoxGeometry(o, sl, shown) ==
    LET params == sliderParams(sl)
        p      == appliedProgress(o, sl)
        o3     == update(saveRestPose(updateDimensions(o, params)), p)
        err    == IF o3.threw # "none" THEN o3.threw
                  ELSE IF p > 95 THEN "TypeError" ELSE "none"
    IN  [obj |-> o3, threw |-> err,
         specShown |-> IF err = "none" THEN <<updateSpecifications(params)>> ELSE shown]

\* init(): box, controller, updateSpecifications(), update(0), updateStatusText(0)
AppInit ==
    /\ ~started
    /\ started' = TRUE
    /\ LET o == update(Constructed, 0)
       IN  /\ Install(o)
           /\ threw' = o.threw
           /\ statusShown' = IF o.threw = "none" THEN <<0>> ELSE << >>
    /\ specShown' = <<updateSpecifications(BoxParams(DefaultDims))>>
    /\ lastOp' = "init"
    /\ lastParams' = BoxParams(DefaultDims)
    /\ UNCHANGED sliders

\* The input listener of a dimension slider: the slider holds v, updateBoxGeometry()
DimensionInput(id, v) ==
    /\ started
    /\ builds < MaxBuilds
    /\ LET sl == [sliders EXCEPT ![id] = v]
           r  == updateBoxGeometry(Obj, sl, specShown)
       IN  /\ sliders' = sl
           /\ Install(r.obj)
           /\ threw' = r.threw
           /\ specShown' = r.specShown
           /\ lastParams' = sliderParams(sl)
    /\ lastOp' = "dimension"
    /\ UNCHANGED <<started, statusShown>>

\* The input listener of the unfold slider: update(val / 100), updateStatusText
UnfoldInput(v) ==
    /\ started
    /\ LET o == update(Obj, v)
       IN  /\ Install(o)
           /\ threw' = o.threw
           /\ statusShown' = IF o.threw = "none" THEN <<v>> ELSE statusShown
    /\ sliders' = [sliders EXCEPT !.unfold = v]
    /\ lastOp' = "unfold"
    /\ UNCHANGED <<started, specShown, lastParams>>

NoBox == [tw |-> 0, bw |-> 0, h |-> 0, d |-> 0, fw |-> 0]

\* Before init() runs: no box, no controller
Init ==
    /\ started = FALSE
    /\ dims = NoBox
    /\ panels = << >>
    /\ group = {}
    /\ builds = 0
    /\ restPose = << >>
    /\ progress = 0
    /\ sliders = InitialSliders
    /\ statusShown = << >>
    /\ specShown = << >>
    /\ lastOp = "none"
    /\ lastParams = BoxParams(NoBox)
    /\ threw = "none"

Next ==
    \/ AppInit
    \/ \E id \in DimInputs : \E v \in SliderValues(id) : DimensionInput(id, v)
    \/ \E v \in UnfoldValues : UnfoldInput(v)

Spec == Init /\ [][Next]_vars

-----------------------------------------------------------------------------
(* The methods of the box and the controller called directly *)

\* Arguments of update: the slider's values and values outside [0, 1]
ProgressInputs == UnfoldValues \cup {-50, 150}

\* Arguments of updateDimensions
ParamInputs ==
    [topWidth : {0, 30, 40}, bottomWidth : {20}, height : {-5, 0, 25},
     depth : {15}, flapWidth : {-1, 0, 2}]

\* box.updateDimensions(params)
CallUpdateDimensions(params) ==
    /\ builds < MaxBuilds
    /\ LET o == updateDimensions(Obj, params)
       IN  /\ Install(o)
           /\ threw' = o.threw
    /\ lastOp' = "updateDimensions"
    /\ lastParams' = params
    /\ UNCHANGED <<started, sliders, statusShown, specShown>>

\* unfoldController.saveRestPose(), on a hierarchy no update has folded yet
\* (as in the constructor and in updateBoxGeometry)
CallSaveRestPose ==
    /\ lastOp \in {"construct", "updateDimensions", "saveRestPose"}
    /\ LET o == saveRestPose(Obj)
       IN  /\ Install(o)
           /\ threw' = o.threw
    /\ lastOp' = "saveRestPose"
    /\ UNCHANGED <<started, sliders, statusShown, specShown, lastParams>>

\* unfoldController.update(k / 100)
CallUpdate(k) ==
    /\ LET o == update(Obj, k)
       IN  /\ Install(o)
           /\ threw' = o.threw
    /\ lastOp' = "update"
    /\ UNCHANGED <<started, sliders, statusShown, specShown, lastParams>>

\* After new TrapezoidBox(scene) and new UnfoldController(box, camera)
InitApi ==
    /\ started = TRUE
    /\ dims = Constructed.dims
    /\ panels = Constructed.panels
    /\ group = Constructed.group
    /\ builds = Constructed.builds
    /\ restPose = Constructed.restPose
    /\ progress = Constructed.progress
    /\ sliders = InitialSliders
    /\ statusShown = << >>
    /\ specShown = << >>
    /\ lastOp = "construct"
    /\ lastParams = BoxParams(DefaultDims)
    /\ threw = "none"

NextApi ==
    \/ \E params \in ParamInputs : CallUpdateDimensions(params)
    \/ CallSaveRestPose
    \/ \E k \in ProgressInputs : CallUpdate(k)

SpecApi == InitApi /\ [][NextApi]_vars

-----------------------------------------------------------------------------
(* update and updateSpecifications applied to every sampled input *)

\* progress = val / 100: the unfold slider's value is a percentage
PercentScale == 100

\* updateSpecifications(params), called with a params object
CallUpdateSpecifications(params) ==
    /\ specShown' = <<updateSpecifications(params)>>
    /\ lastOp' = "updateSpecifications"
    /\ threw' = "none"
    /\ UNCHANGED <<started, dims, panels, group, builds, restPose, progress, sliders,
                   statusShown, lastParams>>

\* The params objects updateSpecifications is called with
SpecInputs == {p \in ParamInputs : p.height = 25 /\ p.flapWidth \in {0, 2}}

NextFn ==
    \/ \E k \in 0 .. PercentScale : CallUpdate(k)
    \/ \E params \in SpecInputs : CallUpdateSpecifications(params)

SpecFn == InitApi /\ [][NextFn]_vars

-----------------------------------------------------------------------------
(* Properties *)

\* n degrees, in angle units (45 degrees = Scale units)
Degrees(n) == (n * Scale) \div 45

\* The position, orientation and scale of every panel of a panel table
Poses(ps) ==
    [k \in DOMAIN ps |->
        [position |-> ps[k].position, rotation |-> ps[k].rotation, scale |-> ps[k].scale]]

\* The current hierarchy with every panel at its stored rest pose
RestHierarchy ==
    [k \in DOMAIN panels |->
        [mesh |-> panels[k].mesh, parent |-> panels[k].parent,
         position |-> restPose[k].pos, rotation |-> restPose[k].rot,
         scale |-> restPose[k].scale]]

\* The panel table a single update(k / 100) makes of the stored rest pose
SingleUpdate(k) == foldFrom(1, RestHierarchy, dims, k).panels

\* The angle by which a panel's orientation has been turned about its hinge
TurnAngle(k) ==
    IF panels[k].rotation.turns = << >> THEN 0
    ELSE panels[k].rotation.turns[Len(panels[k].rotation.turns)].angle

\* Panel k exists and the component c of its Euler rotation is n degrees
HasFlapAngle(k, c, n) ==
    /\ k \in DOMAIN panels
    /\ panels[k].rotation[c] = Ang(Degrees(n))

\* C1: history independence.  After any sequence of update calls (and of
\* rebuilds and rest-pose saves before them) the pose of every panel is the
\* one a single update with the last progress makes of the stored rest pose.
C1_HistoryIndependence ==
    lastOp = "update" => Poses(panels) = Poses(SingleUpdate(progress))

\* C1 witness: update(0.5) has turned the lid by -45 degrees on a hierarchy
\* that has been rebuilt
C1_Witness ==
    /\ lastOp = "update"
    /\ progress = 50
    /\ builds > 1
    /\ TurnAngle("lid") = -Degrees(45)
    /\ TurnAngle("left") = Degrees(135)

\* C2 (as claimed): a progress outside [0, 1] gives the poses of the clamped
\* progress
C2_ClampedProgress ==
    lastOp = "update" => Poses(panels) = Poses(SingleUpdate(clamp(progress, 0, 100)))

\* The conditions under which the parameters are invalid
InvalidParams(p) ==
    \/ p.topWidth <= 0
    \/ p.bottomWidth <= 0
    \/ p.height <= 0
    \/ p.depth <= 0
    \/ p.flapWidth < 0

\* C3 (as claimed): updateDimensions with an invalid parameter fails with
\* InvalidParameter and changes neither the dimensions nor the panel table
\* nor the rest-pose table
C3_InvalidRejected ==
    [][(lastOp' = "updateDimensions" /\ InvalidParams(lastParams'))
          => /\ threw' = "InvalidParameter"
             /\ dims' = dims
             /\ panels' = panels
             /\ restPose' = restPose]_vars

\* The panels and the parent of each, as the claim enumerates them
ClaimedParent ==
    [back |-> "none", lid |-> "back", bottom |-> "back", left |-> "back",
     right |-> "back", front |-> "bottom", lidFlap |-> "lid", lidLeftFlap |-> "lid",
     lidRightFlap |-> "lid", leftFlap |-> "left", leftBottomFlap |-> "left",
     rightFlap |-> "right", rightBottomFlap |-> "right"]

\* The parent panel of panel k ("none" for a child of the group)
ParentPanel(k) == IF panels[k].parent = "group" THEN "none" ELSE panels[k].parent

\* C4 (as claimed): after every build the panel table holds exactly the
\* enumerated panels, forming the enumerated tree
C4_FixedTopology ==
    started =>
        /\ DOMAIN panels = DOMAIN ClaimedParent
        /\ \A k \in DOMAIN panels : ParentPanel(k) = ClaimedParent[k]

\* C5 (as claimed): after update(1) the main panels and every flap row have
\* their closed angles
C5_ClosedState ==
    (started /\ progress = 100) =>
        /\ TurnAngle("lid") = 0
        /\ TurnAngle("bottom") = 0
        /\ TurnAngle("left") = Degrees(180)
        /\ TurnAngle("right") = -Degrees(180)
        /\ HasFlapAngle("lidFlap", "x", 90)
        /\ HasFlapAngle("lidLeftFlap", "y", 90)
        /\ HasFlapAngle("lidRightFlap", "y", -90)
        /\ HasFlapAngle("front", "x", -90)
        /\ HasFlapAngle("leftFlap", "y", 90)
        /\ HasFlapAngle("rightFlap", "y", -90)
        /\ HasFlapAngle("leftBottomFlap", "x", 90)
        /\ HasFlapAngle("rightBottomFlap", "x", 90)

\* C6 (as claimed): after update(0) the main panels and every flap row have
\* their open angles
C6_FlatAngles ==
    (started /\ progress = 0) =>
        /\ TurnAngle("lid") = -Degrees(90)
        /\ TurnAngle("bottom") = Degrees(90)
        /\ TurnAngle("left") = Degrees(90)
        /\ TurnAngle("right") = -Degrees(90)
        /\ HasFlapAngle("lidFlap", "x", 0)
        /\ HasFlapAngle("lidLeftFlap", "y", 0)
        /\ HasFlapAngle("lidRightFlap", "y", 0)
        /\ HasFlapAngle("front", "x", 0)
        /\ HasFlapAngle("leftBottomFlap", "x", 0)
        /\ HasFlapAngle("rightBottomFlap", "x", 0)
        /\ HasFlapAngle("leftFlap", "y", 45)
        /\ HasFlapAngle("rightFlap", "y", -45)

\* The sum of the angles of a sequence of turns
RECURSIVE TotalTurn(_)
TotalTurn(turns) ==
    IF turns = << >> THEN 0 ELSE turns[1].angle + TotalTurn(Tail(turns))

\* The world direction of the local y axis of a side panel (rotation order
\* YXZ, y = 90 degrees, x = s * atan2(slant[1], slant[2])): (sin x, cos x, 0)
EdgeDirection(rot) ==
    IF rot.x.s # 0 THEN <<rot.x.s * rot.x.slant[1], rot.x.slant[2], 0>>
    ELSE IF rot.x.u = 0 THEN <<0, 1, 0>> ELSE <<0, -1, 0>>

\* A child of the group lies in Back's plane (z = const).  The z component
\* of its normal at rest is cos(x) cos(y).  A panel with y = 0 is tilted by
\* x about the x axis, and every turn about the x axis adds to the tilt; a
\* panel with y = 90 degrees is perpendicular to Back, and every turn about
\* an axis of Back's plane that lies in the panel adds to the 90 degrees.
InBackPlane(k) ==
    LET r == panels[k].rotation
        a == TotalTurn(r.turns)
    IN  IF r.order = "XYZ"
        THEN /\ r.y = Ang(0)
             /\ r.x.s = 0
             /\ \A i \in 1 .. Len(r.turns) : r.turns[i].axis = XAxis
             /\ (r.x.u + a) % Degrees(180) = 0
        ELSE /\ r.y = Ang(Degrees(90))
             /\ \A i \in 1 .. Len(r.turns) : r.turns[i].axis = EdgeDirection(r)
             /\ (Degrees(90) + a) % Degrees(180) = 0

\* A child of a panel lies in its parent's plane: its fold angles about the
\* axes of that plane are 0
CoplanarWithParent(k) ==
    LET r == panels[k].rotation
    IN  /\ r.turns = << >>
        /\ r.x.s = 0 /\ r.x.u % Degrees(180) = 0
        /\ r.y.s = 0 /\ r.y.u % Degrees(180) = 0

C8_RebuildIdempotentPoses ==
    [][(lastOp' = "dimension" /\ dims' = dims /\ progress' = progress)
          => Poses(panels') = Poses(panels)]_vars

\* C8 witness: at progress 0.5 the box has been rebuilt once, with the
\* default parameters it was built with
C8_Witness ==
    /\ lastOp = "dimension"
    /\ builds = 2
    /\ dims = DefaultDims
    /\ lastParams = BoxParams(DefaultDims)
    /\ progress = 50
    /\ TurnAngle("left") = Degrees(135)

\* The panels' parent relation and rest transforms
Transforms(ps) ==
    [k \in DOMAIN ps |->
        [parent |-> ps[k].parent, position |-> ps[k].position,
         rotation |-> ps[k].rotation, scale |-> ps[k].scale]]

\* C9: rebuilding an unfolded hierarchy with the dimensions it has gives
\* the same panel ids, parents and rest transforms, and after every rebuild
\* the group holds only meshes of the latest build
C9_RebuildIdempotent ==
    [][(lastOp' = "updateDimensions")
          => /\ \A m \in group' : m[2] = builds' /\ panels'[m[1]].mesh = m[2]
             /\ \A k \in DOMAIN panels' : panels'[k].mesh = builds'
             /\ (lastOp \in {"construct", "updateDimensions", "saveRestPose"} /\ dims' = dims)
                   => Transforms(panels') = Transforms(panels)]_vars

\* C9 witness: the box has been rebuilt twice and has the dimensions it was
\* constructed with
C9_Witness ==
    /\ lastOp = "updateDimensions"
    /\ builds = 3
    /\ dims = DefaultDims
    /\ group = {<<k, 3>> : k \in GroupKeys}

CoSub(a, b) == CoAdd(a, CoNeg(b))

\* The width of a flap: the extent of its geometry away from its hinge edge
\* (local y for lidFlap, local x for leftFlap and rightFlap)
FlapWidth(k) ==
    LET g == panels[k].geometry
    IN  IF k = "lidFlap" THEN CoSub(g[4][2], g[1][2]) ELSE CoSub(g[2][1], g[1][1])

\* updateDimensions was just called with flapWidth = 0 and the other four
\* dimensions positive
ZeroFlapWidthCall ==
    /\ lastOp = "updateDimensions"
    /\ lastParams.flapWidth = 0
    /\ lastParams.topWidth > 0
    /\ lastParams.bottomWidth > 0
    /\ lastParams.height > 0
    /\ lastParams.depth > 0

\* C11: updateDimensions called with flapWidth = 0 and the other dimensions
\* positive is accepted, and afterwards box.fw = 0 and every flap is built
\* with width 0, whatever the previous flap width was.
C11_ZeroFlapWidthAccepted ==
    ZeroFlapWidthCall =>
        /\ threw = "none"
        /\ dims.fw = 0
        /\ \A k \in {"lidFlap", "leftFlap", "rightFlap"} :
               k \in DOMAIN panels /\ FlapWidth(k) = Co(0)


\* The integer square root of a perfect square (0 otherwise)
IntRoot(n) == IF \E g \in 0 .. n : g * g = n THEN CHOOSE g \in 0 .. n : g * g = n ELSE 0

Co3(v) == <<Co(v[1]), Co(v[2]), Co(v[3])>>

CoAdd3(a, b) == <<CoAdd(a[1], b[1]), CoAdd(a[2], b[2]), CoAdd(a[3], b[3])>>

Cross(a, b) ==
    <<a[2] * b[3] - a[3] * b[2], a[3] * b[1] - a[1] * b[3], a[1] * b[2] - a[2] * b[1]>>

\* The point (pt[1], pt[2], 0) of a mesh's geometry turned by the mesh's
\* Euler rotation, where that can be said exactly: no rotation; XYZ with
\* x = 90 degrees; a rotation about the local x (y) axis of a point on that
\* axis; YXZ with y = 90 degrees and x = s * atan2(p, q), which maps the
\* local x axis to (0, 0, -1) and the local y axis to (sin x, cos x, 0).
\* ok is FALSE for a point the rotation moves in any other way.
EulerApply(rot, pt) ==
    LET cx == pt[1]
        cy == pt[2]
        quarter == Ang(HalfPi(Scale))
        p == IF rot.x.s = 0 THEN 0 ELSE rot.x.s * rot.x.slant[1]
        q == IF rot.x.s = 0 THEN 1 ELSE rot.x.slant[2]
        g == IntRoot(cy.r \div (p * p + q * q))
    IN  IF rot.x = Ang(0) /\ rot.y = Ang(0) /\ rot.z = Ang(0)
        THEN [ok |-> TRUE, at |-> <<cx, cy, Co(0)>>]
        ELSE IF rot.order = "XYZ" /\ rot.x = quarter /\ rot.y = Ang(0) /\ rot.z = Ang(0)
        THEN [ok |-> TRUE, at |-> <<cx, Co(0), cy>>]
        ELSE IF rot.order = "XYZ" /\ rot.y = Ang(0) /\ rot.z = Ang(0) /\ cy = Co(0)
        THEN [ok |-> TRUE, at |-> <<cx, Co(0), Co(0)>>]
        ELSE IF rot.order = "XYZ" /\ rot.x = Ang(0) /\ rot.z = Ang(0) /\ cx = Co(0)
        THEN [ok |-> TRUE, at |-> <<Co(0), cy, Co(0)>>]
        ELSE IF /\ rot.order = "YXZ" /\ rot.y = quarter /\ rot.z = Ang(0)
                /\ rot.x.u = 0 /\ Abs(rot.x.s) <= 1
                /\ cx.sl = 0 /\ cy.q = 0
                /\ g * g * (p * p + q * q) = cy.r
        THEN [ok |-> TRUE,
              at |-> <<Co(cy.sl * p * g), Co(cy.sl * q * g), Co(-cx.q)>>]
        ELSE [ok |-> FALSE, at |-> Co3(Zero3)]

\* Vertex i of panel k in the frame of k's parent object, before the
\* rotations about a pivot: position + rotation applied to the vertex
PlacedVertex(k, i) ==
    LET r == EulerApply([panels[k].rotation EXCEPT !.turns = << >>], panels[k].geometry[i])
    IN  [ok |-> r.ok, at |-> CoAdd3(Co3(panels[k].position.at), r.at)]

\* The rotations about a pivot that update has applied to panel k move the
\* panel rigidly (position and orientation are turned alike) and keep the
\* point pt fixed: pt lies on the line through the pivot along the axis
KeptByTurns(k, pt) ==
    LET pt3 == <<pt[1].q, pt[2].q, pt[3].q>>
        pos == panels[k].position.turns
        rot == panels[k].rotation.turns
    IN  /\ Len(pos) = Len(rot)
        /\ \A i \in 1 .. Len(pos) :
               /\ rot[i].axis = pos[i].axis
               /\ rot[i].angle = pos[i].angle
               /\ pt[1].sl = 0 /\ pt[2].sl = 0 /\ pt[3].sl = 0
               /\ Cross(Sub3(pt3, pos[i].pivot), pos[i].axis) = Zero3

\* The hinge of each non-root panel: the panel whose edge it shares, the two
\* vertices of its own hinge edge and the two vertices of the shared edge
\* (vertices are numbered bottom-left, bottom-right, top-right, top-left)
Hinge(k) ==
    CASE k = "lid"       -> [on |-> "back",   mine |-> <<1, 2>>, theirs |-> <<4, 3>>]
      [] k = "bottom"    -> [on |-> "back",   mine |-> <<1, 2>>, theirs |-> <<1, 2>>]
      [] k = "left"      -> [on |-> "back",   mine |-> <<1, 4>>, theirs |-> <<1, 4>>]
      [] k = "right"     -> [on |-> "back",   mine |-> <<1, 4>>, theirs |-> <<2, 3>>]
      [] k = "front"     -> [on |-> "bottom", mine |-> <<1, 2>>, theirs |-> <<4, 3>>]
      [] k = "lidFlap"   -> [on |-> "lid",    mine |-> <<1, 2>>, theirs |-> <<4, 3>>]
      [] k = "leftFlap"  -> [on |-> "left",   mine |-> <<1, 4>>, theirs |-> <<2, 3>>]
      [] k = "rightFlap" -> [on |-> "right",  mine |-> <<1, 4>>, theirs |-> <<2, 3>>]

\* Endpoint e (1 or 2) of the edge that panel k's hinge lies on, in the
\* frame of k's parent object: a vertex of the parent's geometry when k is
\* a child of that panel, the placed vertex of Back when both are children
\* of the group
SharedEdgePoint(k, e) ==
    LET h == Hinge(k)
        g == panels[h.on].geometry[h.theirs[e]]
    IN  IF panels[k].parent = h.on
        THEN [ok |-> TRUE, at |-> <<g[1], g[2], Co(0)>>]
        ELSE IF panels[k].parent = panels[h.on].parent
                /\ panels[h.on].position.turns = << >>
                /\ panels[h.on].rotation.turns = << >>
        THEN PlacedVertex(h.on, h.theirs[e])
        ELSE [ok |-> FALSE, at |-> Co3(Zero3)]

\* Both endpoints of panel k's hinge edge are where the endpoints of the
\* shared edge are, and the rotations applied to k keep them there
HingeClosed(k) ==
    \A e \in {1, 2} :
        LET mine   == PlacedVertex(k, Hinge(k).mine[e])
            theirs == SharedEdgePoint(k, e)
        IN  /\ mine.ok
            /\ theirs.ok
            /\ mine.at = theirs.at
            /\ KeptByTurns(k, mine.at)

\* C12: zero-gap invariant.  For all valid parameters and every progress in
\* [0, 1], after update(progress) the hinge edge of every non-root panel
\* coincides with the corresponding edge of the panel it hinges on.
C12_ZeroGap ==
    started => \A k \in DOMAIN panels \ {"back"} : HingeClosed(k)

\* C12 witness: at progress 0.75 a box with top width 40 and bottom width
\* 40 rebuilt to bottom width 20 has its left side turned about the slanted
\* edge of Back and its lid flap folded, hinges closed
C12_Witness ==
    /\ started
    /\ lastOp = "dimension"
    /\ dims.tw = 40 /\ dims.bw = 20
    /\ progress = 75
    /\ panels["left"].position.turns # << >>
    /\ panels["left"].position.turns[1].axis = leftAxis(dims)
    /\ panels["lidFlap"].rotation.x # Ang(0)
    /\ HingeClosed("left")
    /\ HingeClosed("lidFlap")


\* The square of a length q + sl * sqrt(r) that is rational (sl = 0) or a
\* multiple of the slant height (q = 0); -1 for any other length
CoSq(c) ==
    IF c.sl = 0 THEN c.q * c.q
    ELSE IF c.q = 0 THEN c.sl * c.sl * c.r
    ELSE -1

\* The squared length of the edge between the vertices e[1] and e[2] of
\* panel k's geometry (in squared quarter centimetres)
EdgeSq(k, e) ==
    LET g == panels[k].geometry
    IN  CoSq(CoSub(g[e[2]][1], g[e[1]][1])) + CoSq(CoSub(g[e[2]][2], g[e[1]][2]))

\* C13: hinge lengths.  For all valid parameters the hinge edge of every
\* non-root panel is as long as the edge it shares with the panel it hinges
\* on: lid and lid flap as wide as Back's top edge, bottom and front as wide
\* as Back's bottom edge, the sides and their flaps as high as Back's
\* slanted edge (squared length dx^2 + height^2).
C13_HingeLengths ==
    started =>
        /\ \A k \in DOMAIN panels \ {"back"} :
               EdgeSq(k, Hinge(k).mine) = EdgeSq(Hinge(k).on, Hinge(k).theirs)
        /\ \A k \in {"lid", "lidFlap"} : EdgeSq(k, Hinge(k).mine) = 16 * dims.tw * dims.tw
        /\ \A k \in {"bottom", "front"} : EdgeSq(k, Hinge(k).mine) = 16 * dims.bw * dims.bw
        /\ \A k \in {"left", "right", "leftFlap", "rightFlap"} :
               EdgeSq(k, Hinge(k).mine)
                   = 4 * ((dims.tw - dims.bw) * (dims.tw - dims.bw) + 4 * dims.h * dims.h)

\* C13 witness: a box rebuilt with top width 30 and bottom width 40, whose
\* sides are as high as Back's slanted edge (dx = -5, height 25)
C13_Witness ==
    /\ started
    /\ lastOp = "dimension"
    /\ builds > 1
    /\ dims.tw = 30 /\ dims.bw = 40 /\ dims.h = 25
    /\ EdgeSq("left", <<1, 4>>) = 4 * (100 + 2500)
    /\ EdgeSq("back", <<1, 4>>) = 4 * (100 + 2500)
    /\ EdgeSq("lid", <<1, 2>>) = 16 * 900


\* The fold angle of panel key: the angle it has been turned by about its
\* hinge (side panels and lid, bottom) or its Euler angle about its hinge
\* edge (flaps)
FoldAngle(key) ==
    IF panels[key].parent = "group"
    THEN TotalTurn(panels[key].rotation.turns)
    ELSE panels[key].rotation.x.u + panels[key].rotation.y.u

\* The fold table: the angle of each panel at eased progress e (in
\* millionths), from its flat angle to its closed angle
TableAngle(key, e) ==
    CASE key = "lid"       -> -HalfPi(Scale - e)
      [] key = "bottom"    -> HalfPi(Scale - e)
      [] key = "left"      -> HalfPi(Scale) + HalfPi(e)
      [] key = "right"     -> -HalfPi(Scale) - HalfPi(e)
      [] key = "lidFlap"   -> HalfPi(e)
      [] key = "front"     -> -HalfPi(e)
      [] key = "leftFlap"  -> QuarterPi(Scale) + QuarterPi(e)
      [] key = "rightFlap" -> -QuarterPi(Scale) - QuarterPi(e)

\* The panels whose fold angle does not decrease from flat to closed
Rising == {"lid", "left", "lidFlap", "leftFlap"}

\* closeProgress at the sampled progress k / 100 lies in [0, 1], is 0 at
\* k = 0 and 1 at k = 100, and does not decrease from k to k + 1
EasingMonotone(k) ==
    /\ closeProgress(k) >= 0
    /\ closeProgress(k) <= Scale
    /\ (k = 0 => closeProgress(k) = 0)
    /\ (k = PercentScale => closeProgress(k) = Scale)
    /\ (k < PercentScale => closeProgress(k) <= closeProgress(k + 1))

\* The easing part of C14 on its own, after every sampled update
EasingMonotoneSampled == lastOp = "update" => EasingMonotone(progress)

\* C14: monotonicity.  At each of the 101 sampled points closeProgress is
\* within [0, 1], 0 at 0, 1 at 1 and non-decreasing, and the fold angle
\* that update gives each panel is the fold table's angle for that
\* progress (lid -90 to 0, bottom +90 to 0, left 90 to 180, right -90 to
\* -180, leftFlap 45 to 90, rightFlap -45 to -90, lidFlap 0 to 90, front
\* 0 to -90), which moves in one direction from one sample to the next.
C14_MonotoneAngles ==
    lastOp = "update" =>
        /\ EasingMonotone(progress)
        /\ \A key \in DOMAIN panels \ {"back"} :
               /\ FoldAngle(key) = TableAngle(key, closeProgress(progress))
               /\ progress < PercentScale =>
                      IF key \in Rising
                      THEN TableAngle(key, closeProgress(progress))
                               <= TableAngle(key, closeProgress(progress + 1))
                      ELSE TableAngle(key, closeProgress(progress))
                               >= TableAngle(key, closeProgress(progress + 1))


\* C16: derived display quantities.  For every parameter set
\* updateSpecifications computes dx = (topWidth - bottomWidth) / 2,
\* totalHeight = 2 * flapWidth + 2 * depth + height and
\* areaBack = height * (topWidth + bottomWidth) / 2; for the default
\* parameters dx = 5, slantHeight^2 = 650, totalHeight = 59, areaBack = 625.
C16_DerivedQuantities ==
    (lastOp = "updateSpecifications" /\ specShown # << >>) =>
        LET r == specShown[1]
            p == r.params
        IN  /\ r.dx2 = p.topWidth - p.bottomWidth
            /\ r.totalH = 2 * p.flapWidth + 2 * p.depth + p.height
            /\ r.areaBack2 = p.height * (p.topWidth + p.bottomWidth)
            /\ p = BoxParams(DefaultDims) =>
                   /\ r.dx2 = 2 * 5
                   /\ r.slantSq4 = 4 * 650
                   /\ r.totalH = 59
                   /\ r.areaBack2 = 2 * 625

\* C16 witness: updateSpecifications has run on the default parameters
\* (total height 59)
C16_Witness ==
    /\ lastOp = "updateSpecifications"
    /\ specShown # << >>
    /\ specShown[1].params =
           [topWidth |-> 30, bottomWidth |-> 20, height |-> 25, depth |-> 15,
            flapWidth |-> 2]
    /\ specShown[1].totalH = 59


\* C17: frame of the flap rows and the root.  After update, for every
\* progress, each flap-type panel (a child of another panel) is at its rest
\* position, only its orientation having been set, and Back has its rest
\* position and orientation.
C17_FlapFrame ==
    lastOp = "update" =>
        /\ \A k \in DOMAIN panels :
               panels[k].parent # "group" =>
                   /\ panels[k].position = restPose[k].pos
                   /\ panels[k].scale = restPose[k].scale
                   /\ panels[k].rotation.turns = restPose[k].rot.turns
        /\ panels["back"].position = restPose["back"].pos
        /\ panels["back"].rotation = restPose["back"].rot

\* C17 witness: update(0.5) has folded the lid flap by 45 degrees about its
\* hinge and left it at its rest position on the lid's front edge
C17_Witness ==
    /\ lastOp = "update"
    /\ progress = 50
    /\ panels["lidFlap"].rotation.x = Ang(Degrees(45))
    /\ restPose["lidFlap"].rot.x = Ang(0)
    /\ panels["lidFlap"].position = restPose["lidFlap"].pos
    /\ panels["lidFlap"].position.at = HalfVec(0, dims.d, 0)


\* The panels of the hierarchy and their parent relation: which mesh each
\* key names and which object it is a child of
Hierarchy(ps) == [k \in DOMAIN ps |-> [mesh |-> ps[k].mesh, parent |-> ps[k].parent]]

\* C18: the rest-pose table is read-only to update and a progress change
\* does not rebuild.  Every update call leaves the rest-pose table, the
\* dimensions and the panels with their parent relation unchanged; only
\* saveRestPose changes the rest-pose table and only updateDimensions
\* changes the dimensions and the panels.
C18_UpdateFrame ==
    [][/\ lastOp' = "update" =>
              /\ restPose' = restPose
              /\ dims' = dims
              /\ builds' = builds
              /\ group' = group
              /\ Hierarchy(panels') = Hierarchy(panels)
       /\ restPose' # restPose => lastOp' = "saveRestPose"
       /\ (dims' # dims \/ builds' # builds \/ group' # group
              \/ Hierarchy(panels') # Hierarchy(panels))
             => lastOp' = "updateDimensions"]_vars

\* C18 witness: update(0.25) has folded the lid of a box rebuilt 40 wide
\* whose rest pose was saved after the rebuild, the saved lid pose carrying
\* no fold rotation
C18_Witness ==
    /\ lastOp = "update"
    /\ progress = 25
    /\ builds = 2
    /\ dims.tw = 40
    /\ panels["lid"].rotation.turns # << >>
    /\ restPose["lid"].rot.turns = << >>
    /\ restPose["lid"].pos.at = panels["lid"].position.at


\* Vertex i of panel k is placed at the world point pt, every rotation about
\* a pivot applied to k has its pivot at pt, and the rotations keep it there
PinnedAt(k, i, pt) ==
    /\ PlacedVertex(k, i).ok
    /\ PlacedVertex(k, i).at = Co3(pt)
    /\ \A t \in 1 .. Len(panels[k].position.turns) : panels[k].position.turns[t].pivot = pt
    /\ KeptByTurns(k, Co3(pt))

\* The world point pt is the midpoint of the edge of Back between its
\* vertices i and j
BackEdgeMidpoint(pt, i, j) ==
    /\ PlacedVertex("back", i).ok
    /\ PlacedVertex("back", j).ok
    /\ CoAdd3(PlacedVertex("back", i).at, PlacedVertex("back", j).at) = Co3(Add3(pt, pt))

\* C19: pivot and hinge agreement.  The pivots update uses for the sides
\* are the bottom-back corners (-bw/2, -h/2, -d/2) and (+bw/2, -h/2, -d/2)
\* that createGeometry pins the side panels' corner to, the pivots of lid
\* and bottom are the midpoints (0, +h/2, -d/2) and (0, -h/2, -d/2) of
\* Back's top and bottom edge, and the pinned corner of each side panel is
\* at that point after update, for every progress.
C19_PivotAgreement ==
    started =>
        /\ leftP1(dims) = hingeCorner(dims, -1)
        /\ rightP1(dims) = hingeCorner(dims, 1)
        /\ leftP1(dims) = <<-2 * dims.bw, -2 * dims.h, -2 * dims.d>>
        /\ rightP1(dims) = <<2 * dims.bw, -2 * dims.h, -2 * dims.d>>
        /\ lidPivot(dims) = <<0, 2 * dims.h, -2 * dims.d>>
        /\ bottomPivot(dims) = <<0, -2 * dims.h, -2 * dims.d>>
        /\ BackEdgeMidpoint(lidPivot(dims), 4, 3)
        /\ BackEdgeMidpoint(bottomPivot(dims), 1, 2)
        /\ PinnedAt("left", 1, leftP1(dims))
        /\ PinnedAt("right", 1, rightP1(dims))

\* C19 witness: at progress 1 the left side of a box rebuilt with bottom
\* width 40 has been turned by 180 degrees about the corner (-20, -h/2, -d/2)
C19_Witness ==
    /\ started
    /\ lastOp = "unfold"
    /\ progress = 100
    /\ dims.bw = 40
    /\ TurnAngle("left") = Degrees(180)
    /\ panels["left"].position.turns[1].pivot = <<-80, -2 * dims.h, -2 * dims.d>>
    /\ PinnedAt("left", 1, HalfVec(-40, -dims.h, -dims.d))


\* The transform createGeometry gives panel k for the dimensions d: its
\* position, rotation and scale, no rotation about a pivot applied
BuiltTransform(k, d) ==
    [pos   |-> newMesh(k, d, 0).position,
     rot   |-> newMesh(k, d, 0).rotation,
     scale |-> newMesh(k, d, 0).scale]

\* C20: the rest-pose table always describes the current build.  In every
\* run of the application (init, then dimension and unfold events in any
\* order) the rest-pose table has exactly the keys of the panel table and
\* each entry is the transform createGeometry produces for the current
\* dimensions: no entry was saved from a folded panel, and none is left
\* over from the build before a rebuild.
C20_RestPoseCurrent ==
    started =>
        /\ DOMAIN restPose = DOMAIN panels
        /\ DOMAIN panels = BuiltKeys
        /\ \A k \in DOMAIN panels :
               /\ restPose[k] = BuiltTransform(k, dims)
               /\ restPose[k].pos.turns = << >>
               /\ restPose[k].rot.turns = << >>

\* C20 witness: after two rebuilds, the last to top width 40 at progress 0.5,
\* the left side is folded while its rest entry is the pose createGeometry
\* gives it for the new dimensions
C20_Witness ==
    /\ started
    /\ lastOp = "dimension"
    /\ builds = 3
    /\ dims.tw = 40
    /\ progress = 50
    /\ panels["left"].rotation.turns # << >>
    /\ restPose["left"].rot = sideRotation(dims, -1)
    /\ restPose["left"].pos.at = Sub3(hingeCorner(dims, -1), rotatedLocalCorner(dims, -1))

\* C21: update runs to completion on the hierarchy createGeometry builds.
\* Every panel update dereferences is in the panel table, so no exception
\* ends a handler early: init reaches updateStatusText(0), every unfold
\* event reaches updateStatusText(progress), and every dimension event
\* reaches updateSpecifications(params), also for progress above 0.95.
C21_UpdateCompletes ==
    started =>
        /\ threw = "none"
        /\ \A i \in DOMAIN FoldRows : FoldRows[i] \in DOMAIN panels
        /\ lastOp = "init" => statusShown = <<0>>
        /\ lastOp = "unfold" => statusShown = <<progress>>
        /\ lastOp = "dimension" => specShown = <<updateSpecifications(lastParams)>>

\* C22: the displayed specifications agree with the built geometry.  After
\* every dimension event handled by updateBoxGeometry the five values
\* updateSpecifications computed the display from are the dimensions
\* tw, bw, h, d, fw stored in the box and used by createGeometry, for
\* every slider input including 0.
C22_DisplayMatchesBox ==
    lastOp = "dimension" =>
        /\ specShown # << >>
        /\ specShown[1].params = BoxParams(dims)
        /\ lastParams = BoxParams(dims)


=============================================================================
